---- MODULE Spec2Model ----
(***************************************************************************)
(* Model of src/pipeline/Advanced_pipeline.py: a batch script that reads   *)
(* five tables, gates on Sales/Products, left-merges, derives prices,      *)
(* filters invalid dates, aggregates three summaries and writes four       *)
(* report files.  One action per statement group of the script; pc is the  *)
(* position of the interpreter in the module body.                         *)
(***************************************************************************)
EXTENDS Integers, Sequences, FiniteSets, TLC

VARIABLES pc, trace, exit_code, raised, discounts_txt,
          customers, products, sales, discounts, employees,
          df, product_sales, employee_sales, monthly_sales, reports

vars == <<pc, trace, exit_code, raised, discounts_txt, customers, products, sales, discounts,
          employees, df, product_sales, employee_sales, monthly_sales, reports>>

(***************************************************************************)
(* Bound of the inputs: the rows of sales, products, discounts and         *)
(* employees together.                                                     *)
(***************************************************************************)
MaxRows == 5

(***************************************************************************)
(* Missing values of pandas: NaN in numeric columns, None/NaN in object    *)
(* columns, NaT in datetime columns.                                       *)
(***************************************************************************)
NaN == -1
None == "<NA>"
NaT == [nat |-> TRUE]

\* Line 93: the scalar that df.get falls back to.
DefaultUnitPrice == 100

\* pd.DataFrame(): no columns, no rows.
DataFrame == [columns |-> {}, rows |-> <<>>]

\* DataFrame.empty: any axis of length 0.
Empty(t) == t.columns = {} \/ t.rows = <<>>

(***************************************************************************)
(* pandas operations used by the script.                                   *)
(***************************************************************************)
RECURSIVE Concat(_)
Concat(ss) == IF ss = <<>> THEN <<>> ELSE Head(ss) \o Concat(Tail(ss))

\* Rows of the right table whose key equals k, in right-table order.
Matching(right, key, k) ==
    LET hit(r) == r[key] = k IN SelectSeq(right, hit)

\* Series.fillna(0)
FillNa0(v) == IF v = NaN THEN 0 ELSE v

\* how="inner": a left row without a match is dropped.
LeftRows_Inner(l, joined) == joined

\* how="left": a left row without a match is kept, its right columns missing.
LeftRows(l, joined) == IF joined = <<>> THEN <<l>> ELSE joined

\* One merged row: the left row with the right table's columns cols filled
\* from the matching right row.
Joined(l, r, cols) == [c \in DOMAIN l |-> IF c \in cols THEN r[c] ELSE l[c]]

\* left.merge(right, on/left_on/right_on, how="left") for one left row: one output
\* row per matching right row, in right-table order.
MergeRow(l, right, lkey, rkey, cols) ==
    LET m == Matching(right, rkey, l[lkey])
    IN  LeftRows(l, [i \in DOMAIN m |-> Joined(l, m[i], cols)])

LeftMerge(left, right, lkey, rkey, cols) ==
    Concat([i \in DOMAIN left |-> MergeRow(left[i], right, lkey, rkey, cols)])

\* Elementwise multiplication of two numeric columns: NaN propagates.
Mul(a, b) == IF a = NaN \/ b = NaN THEN NaN ELSE a * b

\* total_price * (1 - discount_percent/100); exact on the input domains.
Discounted(total, pct) ==
    IF total = NaN \/ pct = NaN THEN NaN ELSE (total * (100 - pct)) \div 100

IsLeap(y) == (y % 4 = 0 /\ y % 100 # 0) \/ y % 400 = 0

DaysInMonth(y, m) ==
    IF m = 2 THEN (IF IsLeap(y) THEN 29 ELSE 28)
    ELSE IF m \in {4, 6, 9, 11} THEN 30 ELSE 31

\* pd.to_datetime(..., errors='coerce') on one value: a timestamp, or NaT.
ToDatetime(raw) ==
    IF /\ Len(raw) = 3
       /\ raw[2] \in 1..12
       /\ raw[3] \in 1..DaysInMonth(raw[1], raw[2])
    THEN [year |-> raw[1], month |-> raw[2], day |-> raw[3]]
    ELSE NaT

\* Series.dt.to_period('M')
ToPeriodM(d) == IF d = NaT THEN NaT ELSE [year |-> d.year, month |-> d.month]

\* Series.sum() of a group: missing values are skipped.
RECURSIVE SumCol(_, _)
SumCol(rows, col) ==
    IF rows = <<>> THEN 0
    ELSE FillNa0(Head(rows)[col]) + SumCol(Tail(rows), col)

\* The missing value of a column, by its dtype.
Null(col) ==
    IF col \in {"product_name", "employee_name"} THEN None
    ELSE IF col \in {"sale_date", "month"} THEN NaT
    ELSE NaN

\* df.groupby(key): one group per distinct non-null key (dropna=True).
GroupKeys(rows, key) == {rows[i][key] : i \in DOMAIN rows} \ {Null(key)}

Group(rows, key, k) == LET hit(r) == r[key] = k IN SelectSeq(rows, hit)

(***************************************************************************)
(* Input domains.                                                          *)
(***************************************************************************)
ProductIds == {1, 2}
DiscountProductIds == {1}
SaleEmployeeIds == {9}
EmployeeIds == {9, 7}
Quantities == {2}
UnitPrices == {50}
DiscountPercents == {10, NaN}
\* sale_date as read from the CSV: the fields of a Y-M-D text, or no fields
\* at all for a text such as "not-a-date".
RawDates == {<<2024, 1, 5>>, <<2024, 2, 10>>, <<>>}

ProductName(id) == IF id = 1 THEN "Widget" ELSE "Gadget"
EmployeeName(id) == IF id = 9 THEN "Ann" ELSE "Bob"

SeqsUpTo(S, n) == UNION {[1..k -> S] : k \in 0..n}

SalesColumns == {"sale_id", "product_id", "employee_id", "quantity", "sale_date"}

\* Rows of sales.csv: product 1 sold on any of the dates, product 2 in January.
SaleRows ==
    {s \in [product_id : ProductIds, employee_id : SaleEmployeeIds,
            quantity : Quantities, sale_date : RawDates] :
        s.product_id = 1 \/ s.sale_date = <<2024, 1, 5>>}

\* A row of the working table carries every column the script ever adds;
\* a column not yet in df.columns holds its missing value.
WorkRow(s, i) ==
    [sale_id |-> i, product_id |-> s.product_id, employee_id |-> s.employee_id,
     quantity |-> s.quantity, sale_date |-> s.sale_date,
     product_name |-> None, unit_price |-> NaN, discount_percent |-> NaN,
     id |-> NaN, employee_name |-> None, total_price |-> NaN,
     discounted_price |-> NaN, month |-> NaT]

SalesTables ==
    {[columns |-> SalesColumns, rows |-> [i \in DOMAIN s |-> WorkRow(s[i], i)]] :
        s \in SeqsUpTo(SaleRows, MaxRows)}

ProductRows == {[product_id |-> p, product_name |-> ProductName(p), unit_price |-> u] :
                   p \in ProductIds, u \in UnitPrices}

\* products.csv with and without the optional unit_price column.
ProductsTables ==
    {[columns |-> {"product_id", "product_name", "unit_price"}, rows |-> r] :
        r \in SeqsUpTo(ProductRows, MaxRows)}
    \cup
    {[columns |-> {"product_id", "product_name"},
      rows |-> [i \in DOMAIN r |-> [r[i] EXCEPT !.unit_price = NaN]]] :
        r \in SeqsUpTo(ProductRows, MaxRows) \ {<<>>}}

DiscountRows == [product_id : DiscountProductIds, discount_percent : DiscountPercents]

\* read_csv(header=None, names=[...]) of a file with at least one line.
DiscountsTables(n) ==
    {[columns |-> {"product_id", "discount_percent"}, rows |-> r] :
        r \in SeqsUpTo(DiscountRows, n) \ {<<>>}}

EmployeeRows == {[id |-> e, employee_name |-> EmployeeName(e)] : e \in EmployeeIds}

\* pd.DataFrame(response.json()['data']): an empty list gives pd.DataFrame().
EmployeesTables(n) ==
    {IF r = <<>> THEN DataFrame ELSE [columns |-> {"id", "employee_name"}, rows |-> r] :
        r \in SeqsUpTo(EmployeeRows, n)}

CustomersTables == {[columns |-> {"customer_id"}, rows |-> <<[customer_id |-> 1]>>]}

ReportNames == {"product_sales", "employee_sales", "monthly_sales", "full_sales_data"}

NoSummary == {}

\* What the bound leaves for the tables still to be read.
RowsLeft ==
    MaxRows - (Len(sales.rows) + Len(products.rows) + Len(discounts.rows)
               + Len(employees.rows))

Step(from, to) ==
    /\ pc = from
    /\ pc' = to
    /\ trace' = Append(trace, from)

Init ==
    /\ pc = "read_sqlite"
    /\ trace = <<>>
    /\ exit_code = NaN
    /\ raised = ""
    /\ discounts_txt = <<>>
    /\ customers = DataFrame
    /\ products = DataFrame
    /\ sales = DataFrame
    /\ discounts = DataFrame
    /\ employees = DataFrame
    /\ df = DataFrame
    /\ product_sales = NoSummary
    /\ employee_sales = NoSummary
    /\ monthly_sales = NoSummary
    /\ reports = {}

\* Lines 26-34: customers from SQLite, or pd.DataFrame() on any exception.
ReadSQLite ==
    /\ Step("read_sqlite", "read_csv")
    /\ customers' \in CustomersTables \cup {DataFrame}
    /\ UNCHANGED <<exit_code, raised, discounts_txt, products, sales, discounts, employees, df,
                   product_sales, employee_sales, monthly_sales, reports>>

\* Lines 38-46: both CSVs in one try; a failure of either empties both.
ReadCSVs ==
    /\ Step("read_csv", "read_discounts")
    /\ \/ /\ products' \in ProductsTables
          /\ sales' \in SalesTables
          /\ Len(products'.rows) + Len(sales'.rows) <= MaxRows
       \/ /\ products' = DataFrame
          /\ sales' = DataFrame
    /\ UNCHANGED <<exit_code, raised, discounts_txt, customers, discounts, employees, df,
                   product_sales, employee_sales, monthly_sales, reports>>

\* Lines 50-56: discounts flat file, or pd.DataFrame() on any exception.
ReadDiscounts ==
    /\ Step("read_discounts", "fetch_api")
    /\ discounts' \in DiscountsTables(RowsLeft) \cup {DataFrame}
    /\ discounts_txt' = discounts'.rows
    /\ UNCHANGED <<exit_code, raised, customers, products, sales, employees, df,
                   product_sales, employee_sales, monthly_sales, reports>>

\* Lines 59-70: employees from the API; non-200 or exception gives pd.DataFrame().
FetchAPI ==
    /\ Step("fetch_api", "validate")
    /\ employees' \in EmployeesTables(RowsLeft) \cup {DataFrame}
    /\ UNCHANGED <<exit_code, raised, discounts_txt, customers, products, sales, discounts, df,
                   product_sales, employee_sales, monthly_sales, reports>>

\* The gate with both tables required to be empty.
CriticalDataMissing_And == Empty(sales) /\ Empty(products)

\* Line 74
CriticalDataMissing == Empty(sales) \/ Empty(products)

\* Lines 73-76: exit(1) when sales or products is empty.
ValidateFail ==
    /\ CriticalDataMissing
    /\ Step("validate", "exited")
    /\ exit_code' = 1
    /\ UNCHANGED <<raised, discounts_txt, customers, products, sales, discounts, employees, df,
                   product_sales, employee_sales, monthly_sales, reports>>

ValidatePass ==
    /\ ~CriticalDataMissing
    /\ Step("validate", "fill_discounts")
    /\ UNCHANGED <<exit_code, raised, discounts_txt, customers, products, sales, discounts, employees,
                   df, product_sales, employee_sales, monthly_sales, reports>>

\* Line 79: discounts['discount_percent'] on a frame without that column raises
\* KeyError, which nothing catches: traceback, exit status 1.
FillDiscountsRaise ==
    /\ "discount_percent" \notin discounts.columns
    /\ Step("fill_discounts", "exited")
    /\ raised' = "KeyError"
    /\ exit_code' = 1
    /\ UNCHANGED <<discounts_txt, customers, products, sales, discounts, employees, df,
                   product_sales, employee_sales, monthly_sales, reports>>

FillDiscountRow(d) == [d EXCEPT !.discount_percent = FillNa0(d.discount_percent)]

FillDiscounts ==
    /\ "discount_percent" \in discounts.columns
    /\ Step("fill_discounts", "merge_products")
    /\ discounts' = [discounts EXCEPT !.rows = [i \in DOMAIN discounts.rows |-> FillDiscountRow(discounts.rows[i])]]
    /\ UNCHANGED <<exit_code, raised, discounts_txt, customers, products, sales, employees, df,
                   product_sales, employee_sales, monthly_sales, reports>>

\* Line 83
MergeProducts ==
    /\ Step("merge_products", "merge_discounts")
    /\ df' = [columns |-> sales.columns \cup products.columns,
              rows |-> LeftMerge(sales.rows, products.rows,
                                 "product_id", "product_id",
                                 products.columns \ {"product_id"})]
    /\ UNCHANGED <<exit_code, raised, discounts_txt, customers, products, sales, discounts, employees,
                   product_sales, employee_sales, monthly_sales, reports>>

\* Line 84
MergeDiscounts ==
    /\ Step("merge_discounts", "merge_employees")
    /\ df' = [columns |-> df.columns \cup discounts.columns,
              rows |-> LeftMerge(df.rows, discounts.rows,
                                 "product_id", "product_id",
                                 discounts.columns \ {"product_id"})]
    /\ UNCHANGED <<exit_code, raised, discounts_txt, customers, products, sales, discounts, employees,
                   product_sales, employee_sales, monthly_sales, reports>>

\* The else branch without its assignment.
SetUnknown_Skip(r) == r

SetUnknown(r) == [r EXCEPT !.employee_name = "Unknown"]

\* Lines 85-88
MergeEmployees ==
    /\ Step("merge_employees", "fillna_discount")
    /\ IF ~Empty(employees)
       THEN df' = [columns |-> df.columns \cup {"id", "employee_name"},
                   rows |-> LeftMerge(df.rows, employees.rows,
                                      "employee_id", "id", {"id", "employee_name"})]
       ELSE df' = [columns |-> df.columns \cup {"employee_name"},
                   rows |-> [i \in DOMAIN df.rows |-> SetUnknown(df.rows[i])]]
    /\ UNCHANGED <<exit_code, raised, discounts_txt, customers, products, sales, discounts, employees,
                   product_sales, employee_sales, monthly_sales, reports>>

\* Line 92 without the fillna.
FillRowDiscount_Skip(r) == r

FillRowDiscount(r) == [r EXCEPT !.discount_percent = FillNa0(r.discount_percent)]

\* Line 92
FillNaDiscount ==
    /\ Step("fillna_discount", "default_unit_price")
    /\ df' = [df EXCEPT !.rows = [i \in DOMAIN df.rows |-> FillRowDiscount(df.rows[i])]]
    /\ UNCHANGED <<exit_code, raised, discounts_txt, customers, products, sales, discounts, employees,
                   product_sales, employee_sales, monthly_sales, reports>>

\* df.get('unit_price', 100): the column itself when it exists (missing values
\* and all), the scalar 100 only when the frame has no such column.
GetUnitPrice(columns, r) ==
    IF "unit_price" \in columns THEN r.unit_price ELSE DefaultUnitPrice

\* Line 93
DefaultUnitPriceStep ==
    /\ Step("default_unit_price", "total_price")
    /\ df' = [columns |-> df.columns \cup {"unit_price"},
              rows |-> [i \in DOMAIN df.rows |->
                          [df.rows[i] EXCEPT !.unit_price = GetUnitPrice(df.columns, df.rows[i])]]]
    /\ UNCHANGED <<exit_code, raised, discounts_txt, customers, products, sales, discounts, employees,
                   product_sales, employee_sales, monthly_sales, reports>>

SetTotalPrice(r) == [r EXCEPT !.total_price = Mul(r.quantity, r.unit_price)]

\* Line 94
TotalPrice ==
    /\ Step("total_price", "discounted_price")
    /\ df' = [columns |-> df.columns \cup {"total_price"},
              rows |-> [i \in DOMAIN df.rows |-> SetTotalPrice(df.rows[i])]]
    /\ UNCHANGED <<exit_code, raised, discounts_txt, customers, products, sales, discounts, employees,
                   product_sales, employee_sales, monthly_sales, reports>>

SetDiscountedPrice(r) ==
    [r EXCEPT !.discounted_price = Discounted(r.total_price, r.discount_percent)]

\* Line 95
DiscountedPrice ==
    /\ Step("discounted_price", "to_datetime")
    /\ df' = [columns |-> df.columns \cup {"discounted_price"},
              rows |-> [i \in DOMAIN df.rows |-> SetDiscountedPrice(df.rows[i])]]
    /\ UNCHANGED <<exit_code, raised, discounts_txt, customers, products, sales, discounts, employees,
                   product_sales, employee_sales, monthly_sales, reports>>

SetSaleDate(r) == [r EXCEPT !.sale_date = ToDatetime(r.sale_date)]

\* Line 98
ConvertDates ==
    /\ Step("to_datetime", "dropna")
    /\ df' = [df EXCEPT !.rows = [i \in DOMAIN df.rows |-> SetSaleDate(df.rows[i])]]
    /\ UNCHANGED <<exit_code, raised, discounts_txt, customers, products, sales, discounts, employees,
                   product_sales, employee_sales, monthly_sales, reports>>

HasSaleDate(r) == r.sale_date # NaT

\* The date filter followed at once by the month derivation.
DropNa_ThenMonth ==
    /\ Step("dropna", "month")
    /\ df' = [df EXCEPT !.rows = SelectSeq(df.rows, HasSaleDate)]
    /\ UNCHANGED <<exit_code, raised, discounts_txt, customers, products, sales,
                   discounts, employees, product_sales, employee_sales,
                   monthly_sales, reports>>

\* Line 99: df.dropna(subset=['sale_date'])
DropNa ==
    /\ Step("dropna", "product_sales")
    /\ df' = [df EXCEPT !.rows = SelectSeq(df.rows, HasSaleDate)]
    /\ UNCHANGED <<exit_code, raised, discounts_txt, customers, products, sales, discounts, employees,
                   product_sales, employee_sales, monthly_sales, reports>>

\* groupby(key).agg(total_quantity=('quantity','sum'),
\*                  total_sales=('discounted_price','sum')).reset_index()
AggQuantitySales(rows, key) ==
    {[key |-> k,
      total_quantity |-> SumCol(Group(rows, key, k), "quantity"),
      total_sales |-> SumCol(Group(rows, key, k), "discounted_price")] :
        k \in GroupKeys(rows, key)}

\* groupby(key).agg(total_sales=('discounted_price','sum')).reset_index()
AggSales(rows, key) ==
    {[key |-> k, total_sales |-> SumCol(Group(rows, key, k), "discounted_price")] :
        k \in GroupKeys(rows, key)}

\* Lines 105-108
ProductSales ==
    /\ Step("product_sales", "employee_sales")
    /\ product_sales' = AggQuantitySales(df.rows, "product_name")
    /\ UNCHANGED <<exit_code, raised, discounts_txt, customers, products, sales, discounts, employees,
                   df, employee_sales, monthly_sales, reports>>

\* Lines 111-114
EmployeeSales ==
    /\ Step("employee_sales", "month")
    /\ employee_sales' = AggQuantitySales(df.rows, "employee_name")
    /\ UNCHANGED <<exit_code, raised, discounts_txt, customers, products, sales, discounts, employees,
                   df, product_sales, monthly_sales, reports>>

SetMonth(r) == [r EXCEPT !.month = ToPeriodM(r.sale_date)]

\* Line 117
Month ==
    /\ Step("month", "monthly_sales")
    /\ df' = [columns |-> df.columns \cup {"month"}, rows |-> [i \in DOMAIN df.rows |-> SetMonth(df.rows[i])]]
    /\ UNCHANGED <<exit_code, raised, discounts_txt, customers, products, sales, discounts, employees,
                   product_sales, employee_sales, monthly_sales, reports>>

\* Lines 118-120
MonthlySales ==
    /\ Step("monthly_sales", "save_product_sales")
    /\ monthly_sales' = AggSales(df.rows, "month")
    /\ UNCHANGED <<exit_code, raised, discounts_txt, customers, products, sales, discounts, employees,
                   df, product_sales, employee_sales, reports>>

ToCsv(from, to, name) ==
    /\ Step(from, to)
    /\ reports' = reports \cup {name}
    /\ UNCHANGED <<exit_code, raised, discounts_txt, customers, products, sales, discounts, employees,
                   df, product_sales, employee_sales, monthly_sales>>

\* Line 124
SaveProductSales == ToCsv("save_product_sales", "save_employee_sales", "product_sales")

\* Line 125
SaveEmployeeSales == ToCsv("save_employee_sales", "save_monthly_sales", "employee_sales")

\* Line 126
SaveMonthlySales == ToCsv("save_monthly_sales", "save_full_sales_data", "monthly_sales")

\* Line 127
SaveFullSalesData == ToCsv("save_full_sales_data", "completed", "full_sales_data")

\* Line 129 and the end of the script: exit status 0.
Completed ==
    /\ Step("completed", "exited")
    /\ exit_code' = 0
    /\ UNCHANGED <<raised, discounts_txt, customers, products, sales, discounts, employees, df,
                   product_sales, employee_sales, monthly_sales, reports>>

Next ==
    \/ ReadSQLite
    \/ ReadCSVs
    \/ ReadDiscounts
    \/ FetchAPI
    \/ ValidateFail
    \/ ValidatePass
    \/ FillDiscountsRaise
    \/ FillDiscounts
    \/ MergeProducts
    \/ MergeDiscounts
    \/ MergeEmployees
    \/ FillNaDiscount
    \/ DefaultUnitPriceStep
    \/ TotalPrice
    \/ DiscountedPrice
    \/ ConvertDates
    \/ DropNa
    \/ ProductSales
    \/ EmployeeSales
    \/ Month
    \/ MonthlySales
    \/ SaveProductSales
    \/ SaveEmployeeSales
    \/ SaveMonthlySales
    \/ SaveFullSalesData
    \/ Completed

Spec == Init /\ [][Next]_vars

(***************************************************************************)
(* Properties.                                                             *)
(***************************************************************************)
Done(step) == \E i \in DOMAIN trace : trace[i] = step

IsPrefix(s, full) == Len(s) <= Len(full) /\ s = SubSeq(full, 1, Len(s))

Max1(n) == IF n = 0 THEN 1 ELSE n

Records == {df.rows[i] : i \in DOMAIN df.rows}

Sales == {sales.rows[i] : i \in DOMAIN sales.rows}

\* The number of rows of a table whose column col holds v.
CountOf(rows, col, v) == Cardinality({i \in DOMAIN rows : rows[i][col] = v})

\* The sale_date of a Sales row parses to a date.
Parses(s) == ToDatetime(s.sale_date) # NaT

RECURSIVE SetSum(_, _)
SetSum(S, col) ==
    IF S = {} THEN 0
    ELSE LET x == CHOOSE y \in S : TRUE IN x[col] + SetSum(S \ {x}, col)

RECURSIVE ColumnSum(_, _)
ColumnSum(rows, col) ==
    IF rows = <<>> THEN 0
    ELSE (IF Head(rows)[col] = NaN THEN 0 ELSE Head(rows)[col])
         + ColumnSum(Tail(rows), col)

MergeSteps == {"merge_products", "merge_discounts", "merge_employees"}

TransformSteps == {"fillna_discount", "default_unit_price", "total_price",
                   "discounted_price", "to_datetime", "dropna", "month"}

AggregateSteps == {"product_sales", "employee_sales", "monthly_sales"}

\* C1: when Sales or Products is empty after the source reads, the run ends at
\* the validation step with exit status 1: no merge, transform or aggregation
\* step has run, no exception was raised and no report has been written.
C1_FatalGate ==
    (Done("fetch_api") /\ (Empty(sales) \/ Empty(products))) =>
        /\ pc \in {"validate", "exited"}
        /\ pc = "exited" => (exit_code = 1 /\ raised = "" /\ trace[Len(trace)] = "validate")
        /\ \A s \in MergeSteps \cup TransformSteps \cup AggregateSteps : ~Done(s)
        /\ df = DataFrame
        /\ product_sales = NoSummary /\ employee_sales = NoSummary
        /\ monthly_sales = NoSummary
        /\ reports = {}

C1_Witness ==
    /\ pc = "exited"
    /\ exit_code = 1
    /\ Empty(products)
    /\ ~Empty(sales)

\* C2: when Sales and Products are both non-empty, no step after the gate
\* raises, and the run ends with exit status 0 and all four reports written,
\* whatever the other source reads returned.
C2_OnlyFatalPath ==
    (Done("validate") /\ ~Empty(sales) /\ ~Empty(products)) =>
        /\ raised = ""
        /\ pc = "exited" => (exit_code = 0 /\ reports = ReportNames)

\* C3: after the unit_price default, unit_price is 100 in every record whose
\* product join yields no unit_price (no such column, or no matching Product
\* row) and the matched Product's unit_price in every other record; never null.
C3_UnitPriceResolved ==
    Done("default_unit_price") =>
        \A r \in Records :
            LET m == Matching(products.rows, "product_id", r.product_id)
            IN  /\ r.unit_price # NaN
                /\ IF "unit_price" \notin products.columns \/ m = <<>>
                   THEN r.unit_price = 100
                   ELSE \E i \in DOMAIN m : r.unit_price = m[i].unit_price

\* C4: after the discount default, discount_percent is non-null in every
\* record: 0 when no Discount row of the file matches the product_id, else the
\* value of a matching row, with 0 for a null value.
C4_DiscountResolved ==
    Done("fillna_discount") =>
        \A r \in Records :
            LET m == Matching(discounts_txt, "product_id", r.product_id)
            IN  /\ r.discount_percent # NaN
                /\ IF m = <<>>
                   THEN r.discount_percent = 0
                   ELSE \E i \in DOMAIN m :
                          r.discount_percent =
                            (IF m[i].discount_percent = NaN THEN 0
                             ELSE m[i].discount_percent)

C4_Witness ==
    /\ Done("fillna_discount")
    /\ \E r \in Records : r.discount_percent = 10
    /\ \E r \in Records :
          /\ r.discount_percent = 0
          /\ CountOf(discounts_txt, "discount_percent", NaN) > 0

\* C5 as claimed: every Sales row with a parseable sale_date has as many
\* records as Discount rows match its product_id, or 1 if none match.
C5_DiscountCardinality ==
    Done("dropna") =>
        \A s \in Sales :
            Parses(s) =>
                CountOf(df.rows, "sale_id", s.sale_id)
                    = Max1(CountOf(discounts_txt, "product_id", s.product_id))

\* C5 amended: every Sales row with a parseable sale_date has p * d * e
\* records, p, d, e the numbers of Product, Discount and Employee rows that
\* match it, each counted as 1 when there is none (e is 1 when Employees is
\* empty): no join removes a row, each multiplies it by its matches.
C5_JoinCardinality ==
    Done("dropna") =>
        \A s \in Sales :
            Parses(s) =>
                CountOf(df.rows, "sale_id", s.sale_id)
                    = Max1(CountOf(products.rows, "product_id", s.product_id))
                      * Max1(CountOf(discounts_txt, "product_id", s.product_id))
                      * Max1(CountOf(employees.rows, "id", s.employee_id))

C5_Witness ==
    /\ Done("dropna")
    /\ \E s \in Sales :
          /\ Parses(s)
          /\ CountOf(discounts_txt, "product_id", s.product_id) = 2
          /\ CountOf(df.rows, "sale_id", s.sale_id) = 2
    /\ \E s \in Sales :
          /\ Parses(s)
          /\ CountOf(products.rows, "product_id", s.product_id) = 0
          /\ CountOf(df.rows, "sale_id", s.sale_id) = 1

\* C6: once the three summaries are computed, total_quantity summed over the
\* product groups and over the employee groups equals the quantity summed over
\* all records, and total_sales summed over the groups of each summary equals
\* the discounted_price summed over all records.
C6_AggregateCompleteness ==
    Done("monthly_sales") =>
        /\ SetSum(product_sales, "total_quantity") = ColumnSum(df.rows, "quantity")
        /\ SetSum(employee_sales, "total_quantity") = ColumnSum(df.rows, "quantity")
        /\ SetSum(product_sales, "total_sales") = ColumnSum(df.rows, "discounted_price")
        /\ SetSum(employee_sales, "total_sales") = ColumnSum(df.rows, "discounted_price")
        /\ SetSum(monthly_sales, "total_sales") = ColumnSum(df.rows, "discounted_price")

\* C7: once the summaries are computed, a Sales row has records in the full
\* dataset and a group in each of the three summaries if and only if its
\* sale_date parses; the records of the other rows are the merged records
\* with no field changed by the filter.
C7_DateFilter ==
    Done("monthly_sales") =>
        \A s \in Sales :
            LET mine == {r \in Records : r.sale_id = s.sale_id}
            IN  /\ (mine # {}) <=> Parses(s)
                /\ \A r \in mine :
                      /\ r.sale_date = ToDatetime(s.sale_date)
                      /\ \E g \in product_sales : g.key = r.product_name
                      /\ \E g \in employee_sales : g.key = r.employee_name
                      /\ \E g \in monthly_sales : g.key = r.month

\* C8: after the employee step, employee_name is "Unknown" in every record and
\* no id column was joined when Employees is empty; otherwise it is the
\* employee_name of an Employee row whose id is the record's employee_id, and
\* null when there is no such row.
C8_EmployeeName ==
    Done("merge_employees") =>
        IF Empty(employees)
        THEN /\ "id" \notin df.columns
             /\ \A r \in Records : r.employee_name = "Unknown"
        ELSE \A r \in Records :
                LET m == Matching(employees.rows, "id", r.employee_id)
                IN  IF m = <<>>
                    THEN r.employee_name = None
                    ELSE \E i \in DOMAIN m : r.employee_name = m[i].employee_name

C8_Witness ==
    /\ pc = "exited"
    /\ exit_code = 0
    /\ ~Empty(employees)
    /\ \E r \in Records : r.employee_name = None

\* C9: once both prices are derived, in every record total_price is quantity
\* times unit_price and discounted_price is total_price * (1 - discount/100),
\* all of them numbers.
C9_DerivedPrices ==
    Done("discounted_price") =>
        \A r \in Records :
            /\ r.unit_price # NaN
            /\ r.total_price # NaN
            /\ r.discounted_price # NaN
            /\ r.total_price = r.quantity * r.unit_price
            /\ 100 * r.discounted_price = r.total_price * (100 - r.discount_percent)

Reads == <<"read_sqlite", "read_csv", "read_discounts", "fetch_api", "validate">>

Saves == <<"save_product_sales", "save_employee_sales", "save_monthly_sales",
           "save_full_sales_data", "completed">>

\* The order of C10: month derivation before the first reduction.
ClaimedOrder ==
    Reads \o <<"fill_discounts", "merge_products", "merge_discounts", "merge_employees",
               "fillna_discount", "default_unit_price", "total_price",
               "discounted_price", "to_datetime", "dropna", "month",
               "product_sales", "employee_sales", "monthly_sales">> \o Saves

\* The amended order: month derivation between the employee reduction and
\* the monthly reduction.
AmendedOrder ==
    Reads \o <<"fill_discounts", "merge_products", "merge_discounts", "merge_employees",
               "fillna_discount", "default_unit_price", "total_price",
               "discounted_price", "to_datetime", "dropna",
               "product_sales", "employee_sales", "month", "monthly_sales">> \o Saves

\* C10 as claimed: the steps run one at a time in the order joins, the six
\* transformer steps ending with month derivation, the three reductions, the
\* four report writes.
C10_ClaimedStageOrder == IsPrefix(trace, ClaimedOrder)

\* C10 amended: the steps run one at a time in the order joins, the first five
\* transformer steps, product reduction, employee reduction, month derivation,
\* monthly reduction, the four report writes.
C10_StageOrder == IsPrefix(trace, AmendedOrder)

C10_Witness == trace = AmendedOrder

====
